---------------------------- MODULE Spec2Model ----------------------------
(***************************************************************************)
(* A model of two units of ethdo:                                          *)
(*   util/validators.go                 ParseValidators, ParseValidator    *)
(*   cmd/wallet/sharedimport/input.go   input                              *)
(*                                                                         *)
(* Strings are sequences of one-character strings, so that Contains, Split,*)
(* HasPrefix, ParseUint and hex decoding are computed as the code (and the *)
(* Go library it calls) computes them.  Unsigned integers are W bits wide. *)
(* The lookup and account collaborators are nondeterministic: every call   *)
(* may fail or return any map over a small universe of validator records.  *)
(***************************************************************************)
EXTENDS Integers, Sequences, FiniteSets, TLC

\* Bounds of the model.
W == 2              \* width of an unsigned integer (64 in the code)
MaxIds == 2         \* longest list of identifiers given to ParseValidators
MaxRet == 2         \* size of the universe of validator records a lookup may return
PubKeyLen == 2      \* bytes in a phase0.BLSPubKey (48 in the library)

MaxUint == 2^W - 1

\* A slice cannot hold more elements than there are addresses: an append
\* beyond this is fatal to the process (Go runtime: out of memory).  A range
\* whose loop ends appends at most 2^W - 1 indices, so only a loop that has
\* wrapped around gets here; a real process dies earlier.
MaxIndices == 2^W

VARIABLES
    validatorsStr,  \* ParseValidators' argument: the identifiers
    ctxCancelled,   \* whether ctx is cancelled (then every call made with it fails)
    pc,             \* "iter": head of the outer for; "loop": head of the range for;
                    \* "done": returned; "crashed": the process died; "idle": not running
    i,              \* position in validatorsStr (1-based)
    validators,     \* the local slice validators; entries carry the position they came from
    index, high,    \* the range loop's variables
    indices,        \* the range loop's slice
    ret,            \* what ParseValidators returned
    calls,          \* the collaborator calls made so far, in order
    cfg,            \* viper's configuration, read by input()
    files,          \* the paths os.ReadFile can read
    inPc,           \* "start", "done" for input(); "idle": not running
    out             \* what input() returned

pvVars == <<validatorsStr, ctxCancelled, pc, i, validators, index, high, indices, ret, calls>>
inVars == <<cfg, files, inPc, out>>
vars == <<validatorsStr, ctxCancelled, pc, i, validators, index, high, indices, ret, calls,
          cfg, files, inPc, out>>

---------------------------------------------------------------------------
\* Errors.  An error is its chain of layers, outermost first; a layer is a
\* message and the string formatted into it (<<s>>), if any (<<>>).
NoErr == <<>>

Layer(msg, arg) == [msg |-> msg, arg |-> arg]

\* errors.New(msg), fmt.Errorf(msg + " %s", s)
New(msg, arg) == << Layer(msg, arg) >>

\* A faulty Wrap, which keeps the message and drops the cause.
WrapDropCause(err, msg, arg) == << Layer(msg, arg) >>

\* errors.Wrap(err, msg): the message in front of the cause's chain
Wrap(err, msg, arg) == << Layer(msg, arg) >> \o err

\* The failures of the collaborators.
CtxErr == New("context canceled", <<>>)
LookupErr == New("lookup failed", <<>>)
AccountErr == New("account not found", <<>>)
KeyErr == New("no public key", <<>>)

---------------------------------------------------------------------------
\* Strings.
Ox == <<"0", "x">>
Dash == "-"
Slash == "/"

\* strings.Contains(s, c), c one character
Contains(s, c) == \E k \in 1..Len(s) : s[k] = c

\* strings.HasPrefix(s, p)
HasPrefix(s, p) == Len(s) >= Len(p) /\ SubSeq(s, 1, Len(p)) = p

\* strings.TrimPrefix(s, p)
TrimPrefix(s, p) == IF HasPrefix(s, p) THEN SubSeq(s, Len(p) + 1, Len(s)) ELSE s

\* strings.Split(s, c), c one character
RECURSIVE Split(_, _)
Split(s, c) ==
    IF ~Contains(s, c) THEN << s >>
    ELSE LET k == CHOOSE n \in 1..Len(s) : s[n] = c /\ \A m \in 1..(n-1) : s[m] # c
         IN  << SubSeq(s, 1, k - 1) >> \o Split(SubSeq(s, k + 1, Len(s)), c)

Digits == {"0", "1", "2", "3", "4", "5", "6", "7", "8", "9"}

DigitVal(c) ==
    CASE c = "0" -> 0 [] c = "1" -> 1 [] c = "2" -> 2 [] c = "3" -> 3 [] c = "4" -> 4
      [] c = "5" -> 5 [] c = "6" -> 6 [] c = "7" -> 7 [] c = "8" -> 8 [] c = "9" -> 9

RECURSIVE DecValue(_)
DecValue(s) == IF s = <<>> THEN 0
               ELSE 10 * DecValue(SubSeq(s, 1, Len(s) - 1)) + DigitVal(s[Len(s)])

\* strconv.ParseUint(s, 10, W): syntax error on an empty string or a character
\* that is no digit, range error (with the largest value) beyond W bits
ParseUint(s) ==
    IF s = <<>> \/ \E k \in 1..Len(s) : s[k] \notin Digits
    THEN [val |-> 0, err |-> New("strconv.ParseUint: invalid syntax", << s >>)]
    ELSE IF DecValue(s) > MaxUint
    THEN [val |-> MaxUint, err |-> New("strconv.ParseUint: value out of range", << s >>)]
    ELSE [val |-> DecValue(s), err |-> NoErr]

HexDigits == Digits \cup {"a", "b", "c", "d", "e", "f", "A", "B", "C", "D", "E", "F"}

HexVal(c) ==
    CASE c \in Digits -> DigitVal(c)
      [] c \in {"a", "A"} -> 10 [] c \in {"b", "B"} -> 11 [] c \in {"c", "C"} -> 12
      [] c \in {"d", "D"} -> 13 [] c \in {"e", "E"} -> 14 [] c \in {"f", "F"} -> 15

\* hex.DecodeString(s): two digits a byte; an invalid character or an odd length fails
DecodeString(s) ==
    IF \E k \in 1..Len(s) : s[k] \notin HexDigits
    THEN [data |-> <<>>,
          err |-> New("encoding/hex: invalid byte",
                      << << s[CHOOSE n \in 1..Len(s) : s[n] \notin HexDigits
                                                       /\ \A m \in 1..(n-1) : s[m] \in HexDigits] >> >>)]
    ELSE IF Len(s) % 2 = 1
    THEN [data |-> <<>>, err |-> New("encoding/hex: odd length hex string", <<>>)]
    ELSE [data |-> [k \in 1..(Len(s) \div 2) |-> 16 * HexVal(s[2*k - 1]) + HexVal(s[2*k])],
          err |-> NoErr]

\* pubKey := phase0.BLSPubKey{}; copy(pubKey[:], data): zero-filled, cut to the key's size
CopyKey(data) == [k \in 1..PubKeyLen |-> IF k <= Len(data) THEN data[k] ELSE 0]

---------------------------------------------------------------------------
\* The collaborators.

\* The validator records a lookup can return, each named by its key in the map.
RetKeys == 0..(MaxRet - 1)

\* validatorsProvider.Validators / ValidatorsByPubKey with ctx: a failure, or any map
LookupOutcomes(cancelled) ==
    IF cancelled THEN { [err |-> CtxErr, m |-> {}] }
    ELSE { [err |-> LookupErr, m |-> {}] } \cup { [err |-> NoErr, m |-> m] : m \in SUBSET RetKeys }

\* WalletAndAccountFromPath(ctx, path): a failure or the account
AccountOutcomes(cancelled) ==
    IF cancelled THEN { [err |-> CtxErr, account |-> "none"] }
    ELSE { [err |-> AccountErr, account |-> "none"], [err |-> NoErr, account |-> "account"] }

\* BestPublicKey(account) and accPubKey.Marshal(): a failure or the key's bytes
KeyOutcomes ==
    { [err |-> KeyErr, key |-> <<>>], [err |-> NoErr, key |-> [k \in 1..PubKeyLen |-> k]] }

\* One entry of the log of calls.
Call(fn, arg, err, m) == [fn |-> fn, arg |-> arg, err |-> err, m |-> m]

---------------------------------------------------------------------------
\* ParseValidator.

NoValidator == -1

\* A faulty FirstEntry, which returns nil, nil for an empty map.
FirstEntryNilOnEmpty(m) ==
    IF m = {} THEN { [validator |-> NoValidator, err |-> NoErr] }
    ELSE { [validator |-> k, err |-> NoErr] : k \in m }

\* "for _, validator := range validators { return validator, nil }" and the
\* return after it: any entry of the map, or the unknown-validator error
FirstEntry(m) ==
    IF m = {} THEN { [validator |-> NoValidator, err |-> New("unknown validator", <<>>)] }
    ELSE { [validator |-> k, err |-> NoErr] : k \in m }

\* What a lookup's outcome makes ParseValidator return, with the calls made.
AfterLookup(o, cs) ==
    IF o.err # NoErr
    THEN { [validator |-> NoValidator,
            err |-> Wrap(o.err, "failed to obtain validator information", <<>>),
            calls |-> cs] }
    ELSE { [validator |-> r.validator, err |-> r.err, calls |-> cs] : r \in FirstEntry(o.m) }

\* case strings.HasPrefix(validatorStr, "0x")
PubKeyCase(cancelled, validatorStr) ==
    LET d == DecodeString(TrimPrefix(validatorStr, Ox)) IN
    IF d.err # NoErr
    THEN { [validator |-> NoValidator,
            err |-> Wrap(d.err, "failed to parse validator public key", <<>>),
            calls |-> <<>>] }
    ELSE UNION { AfterLookup(o, << Call("ValidatorsByPubKey", << CopyKey(d.data) >>, o.err, o.m) >>)
                 : o \in LookupOutcomes(cancelled) }

\* case strings.Contains(validatorStr, "/")
AccountCase(cancelled, validatorStr) ==
    UNION { LET c1 == Call("WalletAndAccountFromPath", validatorStr, a.err, {}) IN
            IF a.err # NoErr
            THEN { [validator |-> NoValidator,
                    err |-> Wrap(a.err, "unable to obtain account", <<>>),
                    calls |-> << c1 >>] }
            ELSE UNION { LET c2 == Call("BestPublicKey", << a.account >>, b.err, {}) IN
                         IF b.err # NoErr
                         THEN { [validator |-> NoValidator,
                                 err |-> Wrap(b.err, "unable to obtain public key for account", <<>>),
                                 calls |-> << c1, c2 >>] }
                         ELSE UNION { AfterLookup(o, << c1, c2,
                                          Call("ValidatorsByPubKey", << CopyKey(b.key) >>, o.err, o.m) >>)
                                      : o \in LookupOutcomes(cancelled) }
                         : b \in KeyOutcomes }
            : a \in AccountOutcomes(cancelled) }

\* default:
IndexCase(cancelled, validatorStr) ==
    LET p == ParseUint(validatorStr) IN
    IF p.err # NoErr
    THEN { [validator |-> NoValidator,
            err |-> Wrap(p.err, "failed to parse validator index", <<>>),
            calls |-> <<>>] }
    ELSE UNION { AfterLookup(o, << Call("Validators", << p.val >>, o.err, o.m) >>)
                 : o \in LookupOutcomes(cancelled) }

\* A faulty ParseValidator, whose switch lacks the account case.
ParseValidatorNoAccount(cancelled, validatorStr) ==
    IF HasPrefix(validatorStr, Ox) THEN PubKeyCase(cancelled, validatorStr)
    ELSE IndexCase(cancelled, validatorStr)

\* ParseValidator(ctx, validatorsProvider, validatorStr, stateID): the set of
\* its possible results [validator, err, calls]
ParseValidator(cancelled, validatorStr) ==
    IF HasPrefix(validatorStr, Ox) THEN PubKeyCase(cancelled, validatorStr)
    ELSE IF Contains(validatorStr, Slash) THEN AccountCase(cancelled, validatorStr)
    ELSE IndexCase(cancelled, validatorStr)

---------------------------------------------------------------------------
\* ParseValidators.

\* strings.Contains(validatorsStr[i], "-")
IsRange(s) == Contains(s, Dash)

\* A faulty loop condition, index != high.
LoopCondNotEqual(idx, hi) == idx # hi

\* the range loop's condition, index <= high
LoopCond(idx, hi) == idx <= hi

\* index++ on an unsigned integer of W bits
Incr(idx) == (idx + 1) % (2^W)

\* A faulty append, which puts the record in front.
AppendValidatorInFront(vs, v) == << v >> \o vs

\* validators = append(validators, validator)
AppendValidator(vs, v) == Append(vs, v)

\* A faulty return, of the records gathered so far with the error.
ErrorResultWithRecords(vs, e) == [validators |-> vs, nil |-> FALSE, err |-> e]

\* return nil, err (vs: the records gathered so far, which are dropped)
ErrorResult(vs, e) == [validators |-> <<>>, nil |-> TRUE, err |-> e]

\* return validators, nil
OkResult(vs) == [validators |-> vs, nil |-> FALSE, err |-> NoErr]

NoResult == [validators |-> <<>>, nil |-> TRUE, err |-> NoErr]

\* The orders in which a range over a map can visit its entries.
Orders(m) == { f \in [1..Cardinality(m) -> m] : \A a, b \in 1..Cardinality(m) : a # b => f[a] # f[b] }

Record(pos, k) == [pos |-> pos, rec |-> k]

Logged(pos, cs) == [k \in 1..Len(cs) |-> [pos |-> pos] @@ cs[k]]

Fail(e) ==
    /\ pc' = "done"
    /\ ret' = ErrorResult(validators, e)

\* The range branch up to the loop: lines 35-47.
RangeStart ==
    /\ pc = "iter"
    /\ i <= Len(validatorsStr)
    /\ IsRange(validatorsStr[i])
    /\ LET id == validatorsStr[i]
           bits == Split(id, Dash)
       IN  IF Len(bits) # 2
           THEN /\ Fail(New("invalid range", << id >>))
                /\ UNCHANGED <<index, high, indices>>
           ELSE LET lo == ParseUint(bits[1])
                    hi == ParseUint(bits[2])
                IN  IF lo.err # NoErr
                    THEN /\ Fail(Wrap(lo.err, "invalid range start", <<>>))
                         /\ UNCHANGED <<index, high, indices>>
                    ELSE IF hi.err # NoErr
                    THEN /\ Fail(Wrap(hi.err, "invalid range end", <<>>))
                         /\ UNCHANGED <<index, high, indices>>
                    ELSE /\ pc' = "loop"
                         /\ index' = lo.val
                         /\ high' = hi.val
                         /\ indices' = <<>>
                         /\ ret' = ret
    /\ UNCHANGED <<validatorsStr, ctxCancelled, i, validators, calls>>
    /\ UNCHANGED inVars

\* One iteration of the range loop: lines 48-50.
RangeLoopStep ==
    /\ pc = "loop"
    /\ LoopCond(index, high)
    /\ Len(indices) < MaxIndices
    /\ indices' = Append(indices, index)
    /\ index' = Incr(index)
    /\ UNCHANGED <<validatorsStr, ctxCancelled, pc, i, validators, high, ret, calls>>
    /\ UNCHANGED inVars

\* The append of line 49 when the slice already fills the memory.
RangeLoopCrash ==
    /\ pc = "loop"
    /\ LoopCond(index, high)
    /\ Len(indices) >= MaxIndices
    /\ pc' = "crashed"
    /\ UNCHANGED <<validatorsStr, ctxCancelled, i, validators, index, high, indices, ret, calls>>
    /\ UNCHANGED inVars

\* The lookup after the loop and the append of what it returns: lines 51-57.
RangeLookup ==
    /\ pc = "loop"
    /\ ~LoopCond(index, high)
    /\ \E o \in LookupOutcomes(ctxCancelled) :
          /\ calls' = calls \o Logged(i, << Call("Validators", indices, o.err, o.m) >>)
          /\ IF o.err # NoErr
             THEN /\ Fail(Wrap(o.err, "failed to obtain validators", << validatorsStr[i] >>))
                  /\ UNCHANGED <<i, validators>>
             ELSE \E f \in Orders(o.m) :
                     /\ validators' = validators \o [k \in 1..Len(f) |-> Record(i, f[k])]
                     /\ i' = i + 1
                     /\ pc' = "iter"
                     /\ ret' = ret
    /\ UNCHANGED <<validatorsStr, ctxCancelled, index, high, indices>>
    /\ UNCHANGED inVars

\* The other branch: lines 59-63.
Single ==
    /\ pc = "iter"
    /\ i <= Len(validatorsStr)
    /\ ~IsRange(validatorsStr[i])
    /\ \E r \in ParseValidator(ctxCancelled, validatorsStr[i]) :
          /\ calls' = calls \o Logged(i, r.calls)
          /\ IF r.err # NoErr
             THEN /\ Fail(Wrap(r.err, "unknown validator", << validatorsStr[i] >>))
                  /\ UNCHANGED <<i, validators>>
             ELSE /\ validators' = AppendValidator(validators, Record(i, r.validator))
                  /\ i' = i + 1
                  /\ pc' = "iter"
                  /\ ret' = ret
    /\ UNCHANGED <<validatorsStr, ctxCancelled, index, high, indices>>
    /\ UNCHANGED inVars

\* The loop is over: line 66.
Return ==
    /\ pc = "iter"
    /\ i > Len(validatorsStr)
    /\ pc' = "done"
    /\ ret' = OkResult(validators)
    /\ UNCHANGED <<validatorsStr, ctxCancelled, i, validators, index, high, indices, calls>>
    /\ UNCHANGED inVars

---------------------------------------------------------------------------
\* The identifiers the model gives to ParseValidators.

RECURSIVE FormatUint(_)
FormatUint(n) ==
    LET d == CHOOSE c \in Digits : DigitVal(c) = n % 10
    IN  IF n < 10 THEN << d >> ELSE FormatUint(n \div 10) \o << d >>

RangeStr(lo, hi) == FormatUint(lo) \o << Dash >> \o FormatUint(hi)

Identifiers ==
    { << "1" >>,                               \* an index
      <<>>,                                    \* the empty string
      << "a" >>,                               \* no index
      FormatUint(MaxUint + 1),                 \* an index too large
      RangeStr(0, 1),                          \* low < high
      RangeStr(1, 0),                          \* low > high
      RangeStr(MaxUint, MaxUint),              \* high is the largest value
      RangeStr(1, MaxUint + 1),                \* high too large
      << "a", "-", "1" >>,                     \* low is no number
      << "0", "-", "1", "-", "2" >>,           \* two dashes
      << "0", "x", "A", "b" >>,                \* a public key, shorter than PubKeyLen
      << "0", "x", "a" >>,                     \* hex of odd length
      << "0", "x", "/", "a" >>,                \* 0x and no hex
      << "w", "/", "a" >>,                     \* an account path
      << "w", "-", "1", "/", "a" >>,           \* an account path with a dash
      << "1", "-", "2", "/", "3" >> }          \* a dash, a slash and digits

Lists == UNION { [1..n -> Identifiers] : n \in 0..MaxIds }

---------------------------------------------------------------------------
\* input() of the wallet sharedimport command.

NoData == [nil |-> TRUE]

\* os.ReadFile(path)
ReadFile(fsys, path) ==
    IF path \in fsys
    THEN [data |-> << "contents of", path >>, err |-> NoErr]
    ELSE [data |-> <<>>, err |-> New("open: no such file or directory", << path >>)]

\* A faulty input(), which looks at shares before it looks at the file.
inputSharesBeforeFile(c, fsys) ==
    IF c.remote # ""
    THEN [data |-> NoData, reads |-> <<>>,
          err |-> New("wallet import not available for remote wallets", <<>>)]
    ELSE IF c.timeout = 0
    THEN [data |-> NoData, reads |-> <<>>, err |-> New("timeout is required", <<>>)]
    ELSE IF Len(c.shares) = 0
    THEN [data |-> NoData, reads |-> <<>>, err |-> New("failed to obtain shares", <<>>)]
    ELSE IF c.file = ""
    THEN [data |-> NoData, reads |-> <<>>, err |-> New("file is required", <<>>)]
    ELSE LET f == ReadFile(fsys, c.file) IN
         IF f.err # NoErr
         THEN [data |-> NoData, reads |-> << c.file >>,
               err |-> Wrap(f.err, "failed to read wallet import file", <<>>)]
         ELSE [data |-> [nil |-> FALSE, timeout |-> c.timeout, quiet |-> c.quiet,
                         verbose |-> c.verbose, debug |-> c.debug, file |-> f.data,
                         shares |-> c.shares],
               reads |-> << c.file >>, err |-> NoErr]

\* input(ctx): what it returns, and the files it read on the way
input(c, fsys) ==
    IF c.remote # ""
    THEN [data |-> NoData, reads |-> <<>>,
          err |-> New("wallet import not available for remote wallets", <<>>)]
    ELSE IF c.timeout = 0
    THEN [data |-> NoData, reads |-> <<>>, err |-> New("timeout is required", <<>>)]
    ELSE IF c.file = ""
    THEN [data |-> NoData, reads |-> <<>>, err |-> New("file is required", <<>>)]
    ELSE LET f == ReadFile(fsys, c.file) IN
         IF f.err # NoErr
         THEN [data |-> NoData, reads |-> << c.file >>,
               err |-> Wrap(f.err, "failed to read wallet import file", <<>>)]
         ELSE IF Len(c.shares) = 0
         THEN [data |-> NoData, reads |-> << c.file >>,
               err |-> New("failed to obtain shares", <<>>)]
         ELSE [data |-> [nil |-> FALSE, timeout |-> c.timeout, quiet |-> c.quiet,
                         verbose |-> c.verbose, debug |-> c.debug, file |-> f.data,
                         shares |-> c.shares],
               reads |-> << c.file >>, err |-> NoErr]

Input ==
    /\ inPc = "start"
    /\ out' = input(cfg, files)
    /\ inPc' = "done"
    /\ UNCHANGED <<cfg, files>>
    /\ UNCHANGED pvVars

\* The configurations and file systems the model gives to input().
Paths == {"wallet.dat", "other.dat"}

Configs ==
    [remote : {"", "host:1234"}, timeout : {0, 1, 30}, quiet : BOOLEAN, verbose : BOOLEAN,
     debug : BOOLEAN, file : {""} \cup Paths,
     shares : {<<>>, << "share1" >>, << "share1", "share2" >>}]

IdleCfg == [remote |-> "", timeout |-> 0, quiet |-> FALSE, verbose |-> FALSE,
            debug |-> FALSE, file |-> "", shares |-> <<>>]

NoOut == [data |-> NoData, reads |-> <<>>, err |-> NoErr]

---------------------------------------------------------------------------
Init ==
    /\ validatorsStr \in Lists
    /\ ctxCancelled \in BOOLEAN
    /\ pc = "iter"
    /\ i = 1
    /\ validators = <<>>
    /\ index = 0
    /\ high = 0
    /\ indices = <<>>
    /\ ret = NoResult
    /\ calls = <<>>
    /\ cfg = IdleCfg
    /\ files = {}
    /\ inPc = "idle"
    /\ out = NoOut

Next ==
    \/ RangeStart
    \/ RangeLoopStep
    \/ RangeLoopCrash
    \/ RangeLookup
    \/ Single
    \/ Return

Spec == Init /\ [][Next]_vars

\* The code runs on: a step that can be taken is taken.
FairSpec == Init /\ [][Next]_vars /\ WF_vars(Next)

InputInit ==
    /\ validatorsStr = <<>>
    /\ ctxCancelled = FALSE
    /\ pc = "idle"
    /\ i = 1
    /\ validators = <<>>
    /\ index = 0
    /\ high = 0
    /\ indices = <<>>
    /\ ret = NoResult
    /\ calls = <<>>
    /\ cfg \in Configs
    /\ files \in SUBSET Paths
    /\ inPc = "start"
    /\ out = NoOut

InputNext == Input

InputSpec == InputInit /\ [][InputNext]_vars

---------------------------------------------------------------------------
\* What the properties below speak of.

Ids == 1..Len(validatorsStr)

\* The calls made for the identifier at position p, in order.
CallsAt(p) == SelectSeq(calls, LAMBDA c : c.pos = p)

FnsAt(p) == [k \in 1..Len(CallsAt(p)) |-> CallsAt(p)[k].fn]

\* The records the identifier at position p has contributed so far.
RecordsAt(p) == SelectSeq(validators, LAMBDA v : v.pos = p)

\* ParseValidators has returned an error raised by the identifier at position p.
FailedAt(p) == pc = "done" /\ ret.err # NoErr /\ i = p

\* The identifier at position p has been resolved without an error.
ResolvedAt(p) == p < i

Returned == pc = "done"

\* The process has come to its end.
Ended == pc \in {"done", "crashed"}

IsSuffix(e, full) ==
    Len(e) <= Len(full) /\ SubSeq(full, Len(full) - Len(e) + 1, Len(full)) = e

\* A range identifier with both bounds well-formed.
WellFormedRange(s) ==
    /\ IsRange(s)
    /\ Len(Split(s, Dash)) = 2
    /\ ParseUint(Split(s, Dash)[1]).err = NoErr
    /\ ParseUint(Split(s, Dash)[2]).err = NoErr

Low(s) == ParseUint(Split(s, Dash)[1]).val
High(s) == ParseUint(Split(s, Dash)[2]).val

Elements(q) == { q[k] : k \in 1..Len(q) }

IsLookup(c) == c.fn \in {"Validators", "ValidatorsByPubKey"}

\* A lookup made for the identifier at position p succeeded with an empty map.
EmptyMatchAt(p) ==
    \E k \in 1..Len(CallsAt(p)) :
        IsLookup(CallsAt(p)[k]) /\ CallsAt(p)[k].err = NoErr /\ CallsAt(p)[k].m = {}

NonDecreasing(q) == \A a, b \in 1..Len(q) : a < b => q[a].pos <= q[b].pos

---------------------------------------------------------------------------
\* C1, as claimed: a range identifier with low > high contributes no record
\* and causes no error, whatever the lookup collaborator does.
C1_EmptyWhateverLookupDoes ==
    \A p \in Ids :
        (WellFormedRange(validatorsStr[p]) /\ Low(validatorsStr[p]) > High(validatorsStr[p])
         /\ p <= i)
        => RecordsAt(p) = <<>> /\ ~FailedAt(p)

\* C1, amended: for a range identifier with low > high the loop builds no
\* index and exactly one index lookup is issued, with an empty index set; the
\* identifier contributes the records of the map the collaborator returns,
\* and the only error it can cause is the collaborator's failure, wrapped
\* with the identifier.
C1_EmptyIndexSetLookedUp ==
    \A p \in Ids :
        (WellFormedRange(validatorsStr[p]) /\ Low(validatorsStr[p]) > High(validatorsStr[p]))
        => /\ (p = i /\ pc = "loop") => (indices = <<>> /\ ~LoopCond(index, high))
           /\ (ResolvedAt(p) \/ FailedAt(p)) =>
                 /\ Len(CallsAt(p)) = 1
                 /\ CallsAt(p)[1].fn = "Validators"
                 /\ CallsAt(p)[1].arg = <<>>
                 /\ ResolvedAt(p) =>
                       /\ CallsAt(p)[1].err = NoErr
                       /\ Len(RecordsAt(p)) = Cardinality(CallsAt(p)[1].m)
                       /\ { v.rec : v \in Elements(RecordsAt(p)) } = CallsAt(p)[1].m
                 /\ FailedAt(p) =>
                       /\ CallsAt(p)[1].err # NoErr
                       /\ ret.err = Wrap(CallsAt(p)[1].err, "failed to obtain validators",
                                         << validatorsStr[p] >>)

\* C1's case: a range with low > high has been resolved, and the lookup made for
\* it returned records.
C1_Witness ==
    \E p \in Ids :
        /\ WellFormedRange(validatorsStr[p]) /\ Low(validatorsStr[p]) > High(validatorsStr[p])
        /\ ResolvedAt(p)
        /\ RecordsAt(p) # <<>>

---------------------------------------------------------------------------
\* C2, as claimed: when the process has ended, every well-formed range
\* identifier with low <= high that was reached has had exactly one index
\* lookup, whose argument is the set low..high, and has contributed as many
\* records as the returned map has entries.
C2_OneLookupWithInclusiveSet ==
    Ended =>
        \A p \in Ids :
            (WellFormedRange(validatorsStr[p]) /\ Low(validatorsStr[p]) <= High(validatorsStr[p])
             /\ p <= i)
            => /\ Len(CallsAt(p)) = 1
               /\ CallsAt(p)[1].fn = "Validators"
               /\ Elements(CallsAt(p)[1].arg) = Low(validatorsStr[p])..High(validatorsStr[p])
               /\ CallsAt(p)[1].err = NoErr =>
                     Len(RecordsAt(p)) = Cardinality(CallsAt(p)[1].m)

---------------------------------------------------------------------------
\* C3, as claimed: every identifier reached that contains "/" and does not
\* start with "0x" has had account resolution (WalletAndAccountFromPath, then
\* BestPublicKey) and then one public-key lookup with one key, and no index lookup.
C3_SlashIsAlwaysAccount ==
    Returned =>
        \A p \in Ids :
            (Contains(validatorsStr[p], Slash) /\ ~HasPrefix(validatorsStr[p], Ox) /\ p <= i)
            => /\ FnsAt(p) = << "WalletAndAccountFromPath", "BestPublicKey", "ValidatorsByPubKey" >>
               /\ Len(CallsAt(p)[3].arg) = 1

\* C3, amended: an identifier reached that contains "/", does not start with
\* "0x" and contains no "-" is resolved as an account path:
\* WalletAndAccountFromPath is called with it first, BestPublicKey only if
\* that succeeds, and one public-key lookup with one key only if both
\* succeed; no index lookup is issued.  With a "-" the identifier is taken
\* for a range, and fails without any call.
C3_SlashWithoutDashIsAccount ==
    Returned =>
        \A p \in Ids :
            (Contains(validatorsStr[p], Slash) /\ ~HasPrefix(validatorsStr[p], Ox) /\ p <= i)
            => IF Contains(validatorsStr[p], Dash)
               THEN CallsAt(p) = <<>> /\ FailedAt(p)
               ELSE LET cs == CallsAt(p) IN
                    /\ Len(cs) >= 1
                    /\ cs[1].fn = "WalletAndAccountFromPath"
                    /\ cs[1].arg = validatorsStr[p]
                    /\ IF cs[1].err # NoErr THEN Len(cs) = 1 /\ FailedAt(p)
                       ELSE /\ Len(cs) >= 2
                            /\ cs[2].fn = "BestPublicKey"
                            /\ IF cs[2].err # NoErr THEN Len(cs) = 2 /\ FailedAt(p)
                               ELSE /\ Len(cs) = 3
                                    /\ cs[3].fn = "ValidatorsByPubKey"
                                    /\ Len(cs[3].arg) = 1

\* C3's case: an account path has gone through account resolution and the lookup.
C3_Witness ==
    /\ Returned
    /\ \E p \in Ids :
          /\ Contains(validatorsStr[p], Slash) /\ ~Contains(validatorsStr[p], Dash)
          /\ ~HasPrefix(validatorsStr[p], Ox)
          /\ ResolvedAt(p)
          /\ Len(CallsAt(p)) = 3

---------------------------------------------------------------------------
\* The errors raised, by the library or a collaborator, on the way to the
\* failure of the identifier at position p.
CausesAt(p) ==
    LET s == validatorsStr[p] IN
    ({ CallsAt(p)[k].err : k \in 1..Len(CallsAt(p)) } \ {NoErr})
    \cup (IF IsRange(s) /\ Len(Split(s, Dash)) = 2
          THEN { ParseUint(Split(s, Dash)[k]).err : k \in 1..2 } \ {NoErr}
          ELSE IF IsRange(s) THEN {}
          ELSE IF HasPrefix(s, Ox) THEN { DecodeString(TrimPrefix(s, Ox)).err } \ {NoErr}
          ELSE IF Contains(s, Slash) THEN {}
          ELSE { ParseUint(s).err } \ {NoErr})

\* C4, as claimed: every error ParseValidators returns carries the offending
\* identifier and, where there is one, the cause.
C4_ErrorCarriesIdentifierAndCause ==
    (Returned /\ ret.err # NoErr) =>
        /\ \E k \in 1..Len(ret.err) : ret.err[k].arg = << validatorsStr[i] >>
        /\ CausesAt(i) # {} => \E e \in CausesAt(i) : IsSuffix(e, ret.err)

---------------------------------------------------------------------------
\* C5, as claimed: with a cancelled context ParseValidators returns an error
\* whose chain of causes holds the cancellation, for every list.
C5_CancelledAlwaysFails ==
    (ctxCancelled /\ Returned) => (ret.err # NoErr /\ IsSuffix(CtxErr, ret.err))

\* C5, amended: with a cancelled context, whenever ParseValidators returns:
\* it returns no error exactly for the empty list; otherwise the error is
\* raised by the first identifier, at most one collaborator call has been
\* made (none is repeated), that call failed with the cancellation, and the
\* error's chain of causes ends in the cancellation exactly when a call was
\* made (otherwise the first identifier failed to parse).
C5_CancelledFailsAtFirstCall ==
    (ctxCancelled /\ Returned) =>
        /\ ret.err = NoErr <=> validatorsStr = <<>>
        /\ ret.err # NoErr =>
              /\ i = 1
              /\ ret.nil
              /\ Len(calls) <= 1
              /\ \A k \in 1..Len(calls) : calls[k].err = CtxErr
              /\ calls # <<>> <=> IsSuffix(CtxErr, ret.err)

\* C5's case: a call was made with the cancelled context and ParseValidators returned.
C5_Witness == ctxCancelled /\ Returned /\ calls # <<>> /\ Len(validatorsStr) > 1

---------------------------------------------------------------------------
\* C6: when ParseValidators returns an error, raised at position i, the
\* record list it returns is nil and no collaborator call has been made for a
\* later position; and once it has returned nothing more is called.
C6_FailFast ==
    (Returned /\ ret.err # NoErr) =>
        /\ ret.nil /\ ret.validators = <<>>
        /\ i \in Ids
        /\ \A k \in 1..Len(calls) : calls[k].pos <= i
        /\ ~ENABLED Next

\* C6's case: the second identifier failed, in a collaborator call, after the
\* first had contributed a record.
C6_Witness ==
    /\ Returned /\ ret.err # NoErr
    /\ i = 2
    /\ validators # <<>>
    /\ CallsAt(2) # <<>>

---------------------------------------------------------------------------
\* C7: a lookup that succeeds with an empty map fails the resolution, with the
\* unknown-validator error, when made for an index, a public key or an
\* account path, and lets it go on, with no record contributed, when made for
\* a range.
C7_EmptyMatchAsymmetry ==
    \A p \in Ids :
        EmptyMatchAt(p)
        => IF IsRange(validatorsStr[p])
           THEN ResolvedAt(p) /\ ~FailedAt(p) /\ RecordsAt(p) = <<>>
           ELSE /\ FailedAt(p)
                /\ ret.err = Wrap(New("unknown validator", <<>>), "unknown validator",
                                  << validatorsStr[p] >>)

\* C7's cases, both in one run: a range whose lookup matched nothing, then an
\* index, key or path whose lookup matched nothing.
C7_Witness ==
    /\ Len(validatorsStr) >= 2
    /\ IsRange(validatorsStr[1]) /\ ~IsRange(validatorsStr[2])
    /\ \A p \in 1..2 : EmptyMatchAt(p)

---------------------------------------------------------------------------
\* C8: on success the list returned is the identifiers' contributions in
\* input order: one record, an entry of the map looked up, for each
\* identifier that is no range, and the entries of the map looked up, in some
\* order, for each range; and the calls are made in input order.
C8_ConcatenationInInputOrder ==
    /\ NonDecreasing(calls)
    /\ (Returned /\ ret.err = NoErr) =>
          /\ ~ret.nil /\ ret.validators = validators
          /\ NonDecreasing(ret.validators)
          /\ \A p \in Ids :
                LET rs == SelectSeq(ret.validators, LAMBDA v : v.pos = p)
                    ls == SelectSeq(CallsAt(p), IsLookup)
                IN  /\ Len(ls) = 1
                    /\ ls[1].err = NoErr
                    /\ IF IsRange(validatorsStr[p])
                       THEN /\ Len(rs) = Cardinality(ls[1].m)
                            /\ { v.rec : v \in Elements(rs) } = ls[1].m
                       ELSE /\ Len(rs) = 1
                            /\ rs[1].rec \in ls[1].m

\* C8's case: an index and then a range matching two records, resolved.
C8_Witness ==
    /\ Returned /\ ret.err = NoErr
    /\ Len(validatorsStr) = 2
    /\ ~IsRange(validatorsStr[1]) /\ IsRange(validatorsStr[2])
    /\ Len(ret.validators) = 3

---------------------------------------------------------------------------
\* C9, as claimed: the loop that builds the index set terminates, and the
\* index lookup for the range is then issued (after which ParseValidators is
\* back at the head of its outer loop, or has returned).
C9_RangeLoopTerminates == (pc = "loop") ~> (pc \in {"iter", "done"})

---------------------------------------------------------------------------
\* C10: input() returns a populated dataIn, and no error, exactly when remote
\* is empty, timeout is not zero, file is not empty and can be read, and
\* shares is not empty; otherwise it returns nil and the error of the first
\* check that fails, in the order remote, timeout, file present, file read,
\* shares: the file is not read when an earlier check fails and is read
\* before shares is looked at.
C10_InputChecksInOrder ==
    inPc = "done" =>
        LET ok1 == cfg.remote = ""
            ok2 == cfg.timeout # 0
            ok3 == cfg.file # ""
            ok4 == cfg.file \in files
            ok5 == cfg.shares # <<>>
        IN  /\ out.err = NoErr <=> (ok1 /\ ok2 /\ ok3 /\ ok4 /\ ok5)
            /\ out.err = NoErr =>
                  /\ ~out.data.nil
                  /\ out.data.timeout = cfg.timeout
                  /\ out.data.quiet = cfg.quiet
                  /\ out.data.verbose = cfg.verbose
                  /\ out.data.debug = cfg.debug
                  /\ out.data.file = ReadFile(files, cfg.file).data
                  /\ out.data.shares = cfg.shares
            /\ out.err # NoErr => out.data = NoData
            /\ ~ok1 => out.err[1].msg = "wallet import not available for remote wallets"
            /\ (ok1 /\ ~ok2) => out.err[1].msg = "timeout is required"
            /\ (ok1 /\ ok2 /\ ~ok3) => out.err[1].msg = "file is required"
            /\ (ok1 /\ ok2 /\ ok3 /\ ~ok4) =>
                  /\ out.err[1].msg = "failed to read wallet import file"
                  /\ out.err = Wrap(ReadFile(files, cfg.file).err, out.err[1].msg, <<>>)
            /\ (ok1 /\ ok2 /\ ok3 /\ ok4 /\ ~ok5) => out.err[1].msg = "failed to obtain shares"
            /\ out.reads = IF ok1 /\ ok2 /\ ok3 THEN << cfg.file >> ELSE <<>>

\* C10's case: input() has read the file and failed on the empty shares.
C10_Witness ==
    /\ inPc = "done"
    /\ out.reads # <<>>
    /\ cfg.shares = <<>>
    /\ cfg.file \in files
    /\ out.err # NoErr

=============================================================================
